---- MODULE Spec2Model ----
(***************************************************************************)
(* Click ledger, referral qualification and daily reset of main.py.        *)
(*                                                                         *)
(* Every HTTP request (Flask thread) and every chat handler is a request   *)
(* slot with a program counter.  Each slot opens its own sqlite3           *)
(* connection, so a step is one SQL statement outside a transaction, or    *)
(* one write transaction (first INSERT/UPDATE up to conn.commit(), which   *)
(* sqlite serialises through its database lock), or one operation on the   *)
(* day-marker file.                                                        *)
(*                                                                         *)
(* Abstractions: the username column and the created_at columns are left   *)
(* out (no modelled statement reads them); ids, addresses, user-agents     *)
(* (after the [:500] cut) and urls are drawn from small sets; NULL is 0    *)
(* for ids and "" for text.                                                *)
(***************************************************************************)
EXTENDS Integers, Sequences, FiniteSets, TLC

\* ----------------------------------------------------------------- bounds
\* days the calendar runs through, and click rows the table may hold: one more
\* than the qualification threshold, so that hits follow a qualification
MaxDay == 2
MaxClicks == 3

\* ------------------------------------------------- configuration (env vars)
ADMIN_IDS == 2
REFERRAL_CLICKS_PER_DAY == 2

\* ------------------------------------------------------------ input sets
Req == {1, 2}
UserIds == {1, 2}
Ips == {"ip1", "ip2"}
Uas == {"ua1", "ua2"}
\* the (address, user-agent) pairs redirect hits come from
Clients == {<<"ip1", "ua1">>, <<"ip1", "ua2">>, <<"ip2", "ua1">>}
\* the u query parameter: absent or empty, text without digits, decimal digits,
\* or characters str.isdigit() accepts and int() does not (such as a superscript 2)
GoodParams == {[kind |-> "decimal", n |-> u] : u \in UserIds}
BadParams == {[kind |-> "missing", n |-> 0], [kind |-> "text", n |-> 0],
              [kind |-> "superscript", n |-> 2]}
\* /r hits: (u parameter, client)
Hits == (GoodParams \X Clients) \cup (BadParams \X {<<"ip1", "ua1">>})
\* /start commands: (user id, referred_by), 0 when the payload carries no id
Starts == UserIds \X ({0} \cup UserIds)
\* the hits of the two-request specification: user 1 from two addresses
ConcHits == {[kind |-> "decimal", n |-> 1]} \X {<<"ip1", "ua1">>, <<"ip2", "ua1">>}
\* button presses: (user id, callback data)
Buttons == {<<1, "getlink">>, <<1, "myreferrals">>, <<1, "admin_qualified_today">>,
            <<2, "admin_qualified_today">>}
\* bodies of POST /webhook: a Telegram update, bytes that are not JSON, JSON
\* that is not an update
Bodies == {"update", "not_json", "not_update"}
Urls == {"urlA", "urlB"}
\* /setshrinkme commands: (sender, url), "" when the command has no argument
Commands == {<<1, "urlA">>, <<2, "">>, <<2, "urlA">>, <<2, "urlB">>}
Days == 1..MaxDay

\* day-marker file: absent, truncated (opened for writing, nothing written
\* yet) or holding a day
Absent == -1
Empty == 0

VARIABLES
    today,      \* the calendar day date.today() returns
    marker,     \* contents of LAST_RESET_FILE
    users,      \* table users: user_id -> row
    referrals,  \* table referrals: set of rows, referee UNIQUE
    clicks,     \* table clicks: sequence of rows, index = AUTOINCREMENT id
    settings,   \* table settings: k -> v
    req,        \* request slots: program counter and locals
    sinceReset, \* history: user id -> click rows inserted since daily_reset last ran
    resetDay,   \* history: the day the last daily_reset was made for (0: none yet)
    leaked      \* a connection that was never closed holds the database write lock

vars == <<today, marker, users, referrals, clicks, settings, req, sinceReset, resetDay,
          leaked>>

\* ------------------------------------------------------- pure helpers
today_str == today

\* not user_param or not user_param.isdigit()
ParamRejected(user_param) == user_param.kind \notin {"decimal", "superscript"}

\* int(user_param) raises ValueError
IntFails(user_param) == user_param.kind # "decimal"

\* mutant: the stored day is not compared
MarkerStale_always(last, day) == TRUE

\* last != today
MarkerStale(last, day) == last # day

\* the branch of callback_handler taken for this data and sender evaluates one of
\* the names REFERRAL_QUALIFY_CLICKS, SHRINK_API_KEY, ADMIN_ID, which the module
\* does not define
CallbackRaises(user_id, data) ==
    \/ data \in {"getlink", "stats", "progress", "admin_panel"}
    \/ data = "admin_qualified_today" /\ user_id = ADMIN_IDS

\* cmd_start after ensure_user: `if user.id == ADMIN_ID` raises NameError
StartOutcome == "NameError"

\* mutant: INSERT OR REPLACE, no conflict on an existing id
UserRowConflict_none(us, user_id) == FALSE

\* users.user_id is the PRIMARY KEY: INSERT of an existing id raises IntegrityError
UserRowConflict(us, user_id) == user_id \in DOMAIN us

sha256(s) == <<"sha256", s>>

get_setting(st, key) == IF key \in DOMAIN st THEN st[key] ELSE ""

set_setting(st, key, val) ==
    [k \in (DOMAIN st) \cup {key} |-> IF k = key THEN val ELSE st[k]]

\* mutant: the new row starts with one click counted
NewUserRow_counted(referred_by) ==
    [referred_by |-> referred_by, clicks |-> 1, paid_link |-> "",
     qualified_referrals |-> 0]

NewUserRow(referred_by) ==
    [referred_by |-> referred_by, clicks |-> 0, paid_link |-> "",
     qualified_referrals |-> 0]

InsertUser(us, user_id, referred_by) ==
    [u \in (DOMAIN us) \cup {user_id} |->
        IF u = user_id THEN NewUserRow(referred_by) ELSE us[u]]

\* INSERT INTO referrals inside try/except: a UNIQUE(referee) conflict is swallowed
InsertReferral(refs, referrer, referee) ==
    IF \E e \in refs : e.referee = referee
    THEN refs
    ELSE refs \cup {[referrer |-> referrer, referee |-> referee, qualified |-> FALSE]}

\* SELECT 1 FROM clicks WHERE user_id=? AND click_date=? AND ip_hash=?
IsDuplicate(cl, user_id, day, ip_hash) ==
    \E i \in DOMAIN cl :
        /\ cl[i].user_id = user_id
        /\ cl[i].click_date = day
        /\ cl[i].ip_hash = ip_hash

InsertClick(cl, user_id, day, ip_hash, ua_hash) ==
    Append(cl, [user_id |-> user_id, click_date |-> day,
                ip_hash |-> ip_hash, ua_hash |-> ua_hash])

\* mutant: the WHERE clause is missing
IncrementClicks_no_where(us, user_id) ==
    [u \in DOMAIN us |-> [us[u] EXCEPT !.clicks = @ + 1]]

\* UPDATE users SET clicks = clicks + 1 WHERE user_id=?
IncrementClicks(us, user_id) ==
    [u \in DOMAIN us |->
        IF u = user_id THEN [us[u] EXCEPT !.clicks = @ + 1] ELSE us[u]]

\* SELECT referrer, qualified FROM referrals WHERE referee=?
SelectReferral(refs, user_id) == {e \in refs : e.referee = user_id}

\* SELECT COUNT(*) FROM clicks WHERE user_id=?
CountClicks(cl, user_id) ==
    Cardinality({i \in DOMAIN cl : cl[i].user_id = user_id})

\* UPDATE referrals SET qualified=1 WHERE referee=?
MarkQualified(refs, user_id) ==
    {IF e.referee = user_id THEN [e EXCEPT !.qualified = TRUE] ELSE e : e \in refs}

\* UPDATE users SET qualified_referrals = qualified_referrals + 1 WHERE user_id=?
CreditReferrer(us, referrer) ==
    [u \in DOMAIN us |->
        IF u = referrer THEN [us[u] EXCEPT !.qualified_referrals = @ + 1] ELSE us[u]]

\* mutant: the reset also zeroes the referral credit
daily_reset_all_counters(us) ==
    [u \in DOMAIN us |-> [us[u] EXCEPT !.clicks = 0, !.qualified_referrals = 0]]

\* mutant: the reset skips the users nobody referred
daily_reset_referred_only(us) ==
    [u \in DOMAIN us |->
        IF us[u].referred_by # 0 THEN [us[u] EXCEPT !.clicks = 0] ELSE us[u]]

\* UPDATE users SET clicks = 0
daily_reset(us) == [u \in DOMAIN us |-> [us[u] EXCEPT !.clicks = 0]]

\* ------------------------------------------------------- request slots
IdleReq ==
    [pc |-> "idle", kind |-> "none", uid |-> 0, ip |-> "", ua |-> "", ref |-> 0,
     today |-> 0, last |-> 0, referrer |-> 0, recorded |-> FALSE, status |-> 0, location |-> "",
     err |-> "", created |-> FALSE, data |-> "", check_date |-> 0, click_date |-> 0]

Goto(r, pc) == req' = [req EXCEPT ![r].pc = pc]

\* check_and_do_daily_reset returns: its locals today and last go out of scope
Return(r, pc) == req' = [req EXCEPT ![r].pc = pc, ![r].today = 0, ![r].last = 0]

\* redirect requests that may still insert a click row (one waiting to insert a
\* user row that exists by now will not: its INSERT INTO users raises)
MayInsert ==
    {r \in Req :
        /\ req[r].kind = "redirect"
        /\ req[r].pc \in {"cdr_exists", "cdr_read", "daily_reset", "mark_open",
                          "mark_write", "ensure_select", "ensure_insert", "rc_day",
                          "rc_check", "rc_date", "rc_insert"}
        /\ ~(req[r].pc = "ensure_insert" /\ req[r].uid \in DOMAIN users)}

\* the status Flask answers with when a view raises; a chat handler has none
HttpStatus(r, code) == IF req[r].kind \in {"redirect", "boundary"} THEN code ELSE 0

\* a write statement waits for the write lock (sqlite3.connect's default timeout,
\* 5 s) and raises sqlite3.OperationalError, database is locked: the request
\* ends, its locals are gone
Locked(r) ==
    req' = [req EXCEPT ![r].pc = "done", ![r].status = HttpStatus(r, 500),
                       ![r].err = "OperationalError", ![r].today = 0, ![r].last = 0,
                       ![r].referrer = 0, ![r].click_date = 0, ![r].check_date = 0,
                       ![r].ip = "", ![r].ua = ""]

\* where a request goes after check_and_do_daily_reset returns
AfterReset(r) ==
    CASE req[r].kind = "redirect" -> "ensure_select"
      [] req[r].kind = "callback" -> "callback_branch"
      [] OTHER -> "webhook_update"

\* where a request goes after ensure_user returns
AfterEnsure(r) == IF req[r].kind = "redirect" THEN "rc_day" ELSE "done"

\* how the handler ends when ensure_user has returned to it
AfterEnsureErr(r) == IF req[r].kind = "start" THEN StartOutcome ELSE ""

Init ==
    /\ today = 1
    /\ marker = Absent
    /\ users = <<>>
    /\ referrals = {}
    /\ clicks = <<>>
    /\ settings = <<>>
    /\ req = [r \in Req |-> IdleReq]
    /\ sinceReset = [u \in UserIds |-> 0]
    /\ resetDay = 0
    /\ leaked = FALSE

\* the calendar day advances
Tick ==
    /\ today < MaxDay
    /\ today' = today + 1
    /\ UNCHANGED <<marker, users, referrals, clicks, settings, req, sinceReset, resetDay, leaked>>

\* ----------------------------------------------------- request entries
\* GET /r?u=...: abort(400) on a rejected parameter; uid = int(user_param), which
\* may raise; then check_and_do_daily_reset is entered (today = today_str()).
\* A valid hit is admitted while the clicks table has room for its row: the
\* bound MaxClicks of the model, not a condition of the code.
redirect_endpoint(r, user_param, ip, ua) ==
    /\ req[r].pc = "idle"
    /\ IF ParamRejected(user_param)
       THEN req' = [req EXCEPT ![r] = [IdleReq EXCEPT !.pc = "done", !.kind = "redirect",
                                       !.status = 400, !.err = "missing user"]]
       ELSE IF IntFails(user_param)
       THEN req' = [req EXCEPT ![r] = [IdleReq EXCEPT !.pc = "done", !.kind = "redirect",
                                       !.status = 500, !.err = "ValueError"]]
       ELSE /\ Len(clicks) + Cardinality(MayInsert) < MaxClicks
            /\ req' = [req EXCEPT ![r] = [IdleReq EXCEPT !.pc = "cdr_exists",
                                           !.kind = "redirect", !.uid = user_param.n,
                                           !.ip = ip, !.ua = ua, !.today = today_str]]
    /\ UNCHANGED <<today, marker, users, referrals, clicks, settings, sinceReset, resetDay, leaked>>

\* POST /webhook: check_and_do_daily_reset is entered
webhook(r) ==
    /\ req[r].pc = "idle"
    /\ req' = [req EXCEPT ![r] = [IdleReq EXCEPT !.pc = "cdr_exists", !.kind = "boundary",
                                   !.today = today_str]]
    /\ UNCHANGED <<today, marker, users, referrals, clicks, settings, sinceReset, resetDay, leaked>>

\* a button press: check_and_do_daily_reset, then the branch for q.data
callback_handler(r, u, data) ==
    /\ req[r].pc = "idle"
    /\ req' = [req EXCEPT ![r] = [IdleReq EXCEPT !.pc = "cdr_exists", !.kind = "callback",
                                   !.uid = u, !.data = data, !.today = today_str]]
    /\ UNCHANGED <<today, marker, users, referrals, clicks, settings, sinceReset, resetDay, leaked>>

\* /start [payload]: referred_by parsed from the payload (0 = none), ensure_user entered
cmd_start(r, u, referred_by) ==
    /\ req[r].pc = "idle"
    /\ req' = [req EXCEPT ![r] = [IdleReq EXCEPT !.pc = "ensure_select", !.kind = "start",
                                   !.uid = u, !.ref = referred_by]]
    /\ UNCHANGED <<today, marker, users, referrals, clicks, settings, sinceReset, resetDay, leaked>>

\* mutant: the sender is not compared with the admin id
cmd_setshrinkme_no_check(sender, url) ==
    /\ settings' = IF url = "" \/ leaked THEN settings
                   ELSE set_setting(settings, "shrinkme", url)
    /\ UNCHANGED <<today, marker, users, referrals, clicks, req, sinceReset, resetDay, leaked>>

\* /setshrinkme [url]: url = "" when the command carries no argument; with the
\* write lock held set_setting raises and nothing is stored
cmd_setshrinkme(sender, url) ==
    /\ settings' = IF sender # ADMIN_IDS \/ url = "" \/ leaked THEN settings
                   ELSE set_setting(settings, "shrinkme", url)
    /\ UNCHANGED <<today, marker, users, referrals, clicks, req, sinceReset, resetDay, leaked>>

\* POST /webhook after the reset check: request.get_json(force=True) answers 400
\* for a body that is not JSON, Update.de_json raises for JSON that is not an
\* update, else the update is queued and the answer is ("OK", 200)
webhook_update(r, body) ==
    /\ req[r].pc = "webhook_update"
    /\ req' = [req EXCEPT ![r].pc = "done",
                          ![r].status = CASE body = "update" -> 200
                                          [] body = "not_json" -> 400
                                          [] OTHER -> 500,
                          ![r].err = CASE body = "update" -> ""
                                       [] body = "not_json" -> "BadRequest"
                                       [] OTHER -> "TypeError"]
    /\ UNCHANGED <<today, marker, users, referrals, clicks, settings, sinceReset, resetDay, leaked>>

\* the branch of callback_handler: read-only queries (the UPDATE of paid_link in
\* "getlink" is behind the NameError), then a reply or an uncaught NameError
callback_branch(r) ==
    /\ req[r].pc = "callback_branch"
    /\ req' = [req EXCEPT ![r] =
                 [IdleReq EXCEPT !.pc = "done", !.kind = "callback",
                                 !.err = IF CallbackRaises(req[r].uid, req[r].data)
                                         THEN "NameError" ELSE ""]]
    /\ UNCHANGED <<today, marker, users, referrals, clicks, settings, sinceReset, resetDay, leaked>>

\* ------------------------------------------- check_and_do_daily_reset
\* os.path.exists(LAST_RESET_FILE)
cdr_exists(r) ==
    /\ req[r].pc = "cdr_exists"
    /\ Goto(r, IF marker = Absent THEN "mark_open" ELSE "cdr_read")
    /\ UNCHANGED <<today, marker, users, referrals, clicks, settings, sinceReset, resetDay, leaked>>

\* last = f.read().strip(); if last != today
cdr_read(r) ==
    /\ req[r].pc = "cdr_read"
    /\ IF MarkerStale(marker, req[r].today)
       THEN req' = [req EXCEPT ![r].pc = "daily_reset", ![r].last = marker]
       ELSE Return(r, AfterReset(r))
    /\ UNCHANGED <<today, marker, users, referrals, clicks, settings, sinceReset, resetDay, leaked>>

\* daily_reset()
do_daily_reset(r) ==
    /\ req[r].pc = "daily_reset"
    /\ IF leaked
       THEN Locked(r) /\ UNCHANGED <<users, sinceReset, resetDay>>
       ELSE /\ users' = daily_reset(users)
            /\ sinceReset' = [u \in UserIds |-> 0]
            /\ resetDay' = req[r].today
            /\ req' = [req EXCEPT ![r].pc = "mark_open", ![r].last = 0]
    /\ UNCHANGED <<today, marker, referrals, clicks, settings, leaked>>

\* open(LAST_RESET_FILE, "w"): the file is created or truncated
mark_open(r) ==
    /\ req[r].pc = "mark_open"
    /\ marker' = Empty
    /\ Goto(r, "mark_write")
    /\ UNCHANGED <<today, users, referrals, clicks, settings, sinceReset, resetDay, leaked>>

\* f.write(today), flushed when the with-block closes the file
mark_write(r) ==
    /\ req[r].pc = "mark_write"
    /\ marker' = req[r].today
    /\ Return(r, AfterReset(r))
    /\ UNCHANGED <<today, users, referrals, clicks, settings, sinceReset, resetDay, leaked>>

\* ----------------------------------------------------------- ensure_user
\* SELECT user_id FROM users WHERE user_id=?; for a user that exists ensure_user
\* returns, unless the caller passed a username (a chat start whose sender has
\* one): then the UPDATE of the username follows
ensure_select(r) ==
    /\ req[r].pc = "ensure_select"
    /\ IF req[r].uid \in DOMAIN users
       THEN \/ req' = [req EXCEPT ![r].pc = AfterEnsure(r), ![r].err = AfterEnsureErr(r)]
            \/ req[r].kind = "start" /\ Goto(r, "ensure_update")
       ELSE Goto(r, "ensure_insert")
    /\ UNCHANGED <<today, marker, users, referrals, clicks, settings, sinceReset, resetDay, leaked>>

\* UPDATE users SET username=? WHERE user_id=?; commit (the username column is
\* not modelled)
ensure_update(r) ==
    /\ req[r].pc = "ensure_update"
    /\ IF leaked
       THEN Locked(r)
       ELSE req' = [req EXCEPT ![r].pc = AfterEnsure(r), ![r].err = AfterEnsureErr(r)]
    /\ UNCHANGED <<today, marker, users, referrals, clicks, settings, sinceReset, resetDay, leaked>>

\* INSERT INTO users ...; INSERT INTO referrals ... if referred_by; commit.
\* A row inserted by another connection since the SELECT makes the first INSERT
\* raise sqlite3.IntegrityError, which nothing catches: the request ends in an
\* error, conn.close() is skipped and the open transaction of the failed INSERT
\* keeps the write lock until the connection object is collected.
ensure_insert(r) ==
    /\ req[r].pc = "ensure_insert"
    /\ IF leaked
       THEN Locked(r) /\ UNCHANGED <<users, referrals, leaked>>
       ELSE IF UserRowConflict(users, req[r].uid)
       THEN /\ req' = [req EXCEPT ![r].pc = "done", ![r].status = HttpStatus(r, 500),
                                   ![r].err = "IntegrityError"]
            /\ leaked' = TRUE
            /\ UNCHANGED <<users, referrals>>
       ELSE /\ users' = InsertUser(users, req[r].uid, req[r].ref)
            /\ referrals' = IF req[r].ref # 0
                            THEN InsertReferral(referrals, req[r].ref, req[r].uid)
                            ELSE referrals
            /\ req' = [req EXCEPT ![r].pc = AfterEnsure(r), ![r].created = TRUE,
                                   ![r].err = AfterEnsureErr(r)]
            /\ UNCHANGED leaked
    /\ UNCHANGED <<today, marker, clicks, settings, sinceReset, resetDay>>

\* the connection that ensure_user left open is collected: its transaction is
\* rolled back and the write lock released
collect ==
    /\ leaked
    /\ leaked' = FALSE
    /\ UNCHANGED <<today, marker, users, referrals, clicks, settings, req, sinceReset,
                   resetDay>>

\* ---------------------------------------------- record_click_via_redirect
\* the arguments of the duplicate check are evaluated: today_str() is read here,
\* before sqlite runs the SELECT
rc_day(r) ==
    /\ req[r].pc = "rc_day"
    /\ req' = [req EXCEPT ![r].pc = "rc_check", ![r].check_date = today_str]
    /\ UNCHANGED <<today, marker, users, referrals, clicks, settings, sinceReset, resetDay, leaked>>

\* the duplicate check: SELECT 1 FROM clicks WHERE user_id, click_date, ip_hash
\* (ip_hash and ua_hash are not read again once the function returns)
rc_check(r) ==
    /\ req[r].pc = "rc_check"
    /\ IF IsDuplicate(clicks, req[r].uid, req[r].check_date, sha256(req[r].ip))
       THEN req' = [req EXCEPT ![r].pc = "respond", ![r].check_date = 0,
                               ![r].ip = "", ![r].ua = ""]
       ELSE req' = [req EXCEPT ![r].pc = "rc_date", ![r].check_date = 0]
    /\ UNCHANGED <<today, marker, users, referrals, clicks, settings, sinceReset, resetDay, leaked>>

\* the arguments of the INSERT are evaluated: today_str() is read here, before
\* sqlite runs the statement (which may first wait for the write lock)
rc_date(r) ==
    /\ req[r].pc = "rc_date"
    /\ req' = [req EXCEPT ![r].pc = "rc_insert", ![r].click_date = today_str]
    /\ UNCHANGED <<today, marker, users, referrals, clicks, settings, sinceReset, resetDay, leaked>>

\* INSERT INTO clicks (click_date as evaluated); UPDATE users SET clicks = clicks + 1; commit
rc_insert(r) ==
    /\ req[r].pc = "rc_insert"
    /\ IF leaked
       THEN Locked(r) /\ UNCHANGED <<clicks, users, sinceReset>>
       ELSE /\ clicks' = InsertClick(clicks, req[r].uid, req[r].click_date,
                                     sha256(req[r].ip), sha256(req[r].ua))
            /\ users' = IncrementClicks(users, req[r].uid)
            /\ req' = [req EXCEPT ![r].pc = "rc_row", ![r].recorded = TRUE,
                                   ![r].click_date = 0, ![r].ip = "", ![r].ua = ""]
            /\ sinceReset' = [sinceReset EXCEPT ![req[r].uid] = @ + 1]
    /\ UNCHANGED <<today, marker, referrals, settings, resetDay, leaked>>

\* SELECT referrer, qualified FROM referrals WHERE referee=?; if row; if not qualified
rc_row(r) ==
    /\ req[r].pc = "rc_row"
    /\ LET rows == SelectReferral(referrals, req[r].uid) IN
       IF rows = {} \/ (\E e \in rows : e.qualified)
       THEN Goto(r, "respond")
       ELSE \E e \in rows :
                req' = [req EXCEPT ![r].pc = "rc_count", ![r].referrer = e.referrer]
    /\ UNCHANGED <<today, marker, users, referrals, clicks, settings, sinceReset, resetDay, leaked>>

\* SELECT COUNT(*) FROM clicks WHERE user_id=?; if total >= REFERRAL_CLICKS_PER_DAY
rc_count(r) ==
    /\ req[r].pc = "rc_count"
    /\ IF CountClicks(clicks, req[r].uid) >= REFERRAL_CLICKS_PER_DAY
       THEN Goto(r, "rc_qualify")
       ELSE req' = [req EXCEPT ![r].pc = "respond", ![r].referrer = 0]
    /\ UNCHANGED <<today, marker, users, referrals, clicks, settings, sinceReset, resetDay, leaked>>

\* UPDATE referrals SET qualified=1; UPDATE users SET qualified_referrals + 1; commit
rc_qualify(r) ==
    /\ req[r].pc = "rc_qualify"
    /\ IF leaked
       THEN Locked(r) /\ UNCHANGED <<referrals, users>>
       ELSE /\ referrals' = MarkQualified(referrals, req[r].uid)
            /\ users' = CreditReferrer(users, req[r].referrer)
            /\ req' = [req EXCEPT ![r].pc = "respond", ![r].referrer = 0]
    /\ UNCHANGED <<today, marker, clicks, settings, sinceReset, resetDay, leaked>>

\* ------------------------------------------- redirect_endpoint, the answer
\* mutant: the user's own link is preferred to the global link
respond_user_link_first(r) ==
    /\ req[r].pc = "respond"
    /\ LET shrinkme == get_setting(settings, "shrinkme")
           paid == IF req[r].uid \in DOMAIN users THEN users[req[r].uid].paid_link ELSE ""
       IN  IF paid # "" \/ shrinkme # ""
           THEN req' = [req EXCEPT ![r].pc = "done",
                                   ![r].status = 302,
                                   ![r].location = IF paid # "" THEN paid ELSE shrinkme]
           ELSE Goto(r, "respond_paid")
    /\ UNCHANGED <<today, marker, users, referrals, clicks, settings, sinceReset, resetDay, leaked>>

\* shrinkme = get_setting("shrinkme"); if shrinkme: 302 to it
respond(r) ==
    /\ req[r].pc = "respond"
    /\ LET shrinkme == get_setting(settings, "shrinkme")
       IN  IF shrinkme # ""
           THEN req' = [req EXCEPT ![r].pc = "done",
                                   ![r].status = 302, ![r].location = shrinkme]
           ELSE Goto(r, "respond_paid")
    /\ UNCHANGED <<today, marker, users, referrals, clicks, settings, sinceReset, resetDay, leaked>>

\* SELECT paid_link FROM users WHERE user_id=?; 302 to it if set, else abort(500)
respond_paid(r) ==
    /\ req[r].pc = "respond_paid"
    /\ LET paid == IF req[r].uid \in DOMAIN users THEN users[req[r].uid].paid_link ELSE ""
       IN  req' = [req EXCEPT ![r].pc = "done",
                              ![r].status = IF paid # "" THEN 302 ELSE 500,
                              ![r].location = paid]
    /\ UNCHANGED <<today, marker, users, referrals, clicks, settings, sinceReset, resetDay, leaked>>

\* the request has returned; its slot serves the next request
Finish(r) ==
    /\ req[r].pc = "done"
    /\ req' = [req EXCEPT ![r] = IdleReq]
    /\ UNCHANGED <<today, marker, users, referrals, clicks, settings, sinceReset, resetDay, leaked>>

\* ---------------------------------------------------------- specification
Step(r) ==
    \/ cdr_exists(r)
    \/ cdr_read(r)
    \/ do_daily_reset(r)
    \/ mark_open(r)
    \/ mark_write(r)
    \/ ensure_select(r)
    \/ ensure_update(r)
    \/ ensure_insert(r)
    \/ rc_day(r)
    \/ rc_check(r)
    \/ rc_date(r)
    \/ rc_insert(r)
    \/ rc_row(r)
    \/ rc_count(r)
    \/ rc_qualify(r)
    \/ respond(r)
    \/ respond_paid(r)
    \/ Finish(r)

\* Two requests at a time. Flask serves /r and /webhook on a thread per
\* request; the bot's update loop runs the command handlers one at a time.
\* Slot 1 is a Flask thread, slot 2 a Flask thread serving /r or the update loop
\* handling a /start of any user with any referrer.
Next ==
    \/ Tick
    \/ \E r \in Req : \E h \in ConcHits : redirect_endpoint(r, h[1], h[2][1], h[2][2])
    \/ webhook(1)
    \/ webhook_update(1, "update")
    \/ \E p \in Starts : cmd_start(2, p[1], p[2])
    \/ \E r \in Req : Step(r)
    \/ collect

Spec == Init /\ [][Next]_vars

\* One request at a time (slot 1), every request and every input, before the
\* admin has stored a link.
SeqNext ==
    \/ Tick
    \/ \E h \in Hits : redirect_endpoint(1, h[1], h[2][1], h[2][2])
    \/ webhook(1)
    \/ \E body \in Bodies : webhook_update(1, body)
    \/ \E p \in Starts : cmd_start(1, p[1], p[2])
    \/ \E b \in Buttons : callback_handler(1, b[1], b[2])
    \/ callback_branch(1)
    \/ Step(1)

SeqSpec == Init /\ [][SeqNext]_vars

\* One request at a time, and /setshrinkme commands at any moment.
StoredNext ==
    \/ SeqNext
    \/ \E c \in Commands : cmd_setshrinkme(c[1], c[2])

\* The service started on a database file that already holds a user row with a
\* cached link: init_db creates the tables only if they do not exist.
InitStored ==
    /\ today = 1
    /\ marker = Absent
    /\ users = [u \in {1} |-> [NewUserRow(0) EXCEPT !.paid_link = "paidA"]]
    /\ referrals = {}
    /\ clicks = <<>>
    /\ settings = <<>>
    /\ req = [r \in Req |-> IdleReq]
    /\ sinceReset = [u \in UserIds |-> 0]
    /\ resetDay = 0
    /\ leaked = FALSE

StoredSpec == InitStored /\ [][StoredNext]_vars

\* ================================================================ claims
Quiescent == \A r \in Req : req[r].pc \in {"idle", "done"}

\* slot r takes the step that leaves program counter pc
Leaves(r, pc) == req[r].pc = pc /\ req'[r].pc # pc

\* a click row exists for (user, day, address hash, user-agent hash)
HasEvent(cl, user_id, day, ip, ua) ==
    \E i \in DOMAIN cl :
        cl[i] = [user_id |-> user_id, click_date |-> day,
                 ip_hash |-> sha256(ip), ua_hash |-> sha256(ua)]

QualifiedEdges(u) == {e \in referrals : e.referrer = u /\ e.qualified}

\* click rows of a user over all days
AllTimeEvents(u) == Cardinality({i \in DOMAIN clicks : clicks[i].user_id = u})

\* C1: no two click rows ever exist for the same (user, day, fingerprint),
\* whatever the interleaving of redirect hits.
C1_NoDuplicateClickEvents ==
    \A i, j \in DOMAIN clicks : clicks[i] = clicks[j] => i = j

\* C2: the referrer's qualified_referrals is incremented at most once per
\* referral edge: it never exceeds the number of the referrer's qualified edges.
C2_CreditedOncePerEdge ==
    \A u \in DOMAIN users :
        users[u].qualified_referrals <= Cardinality(QualifiedEdges(u))

\* C3: for one day rollover the counters are zeroed by one request only: a
\* request that found an earlier day in the marker does not run daily_reset
\* for a day for which daily_reset has already run.
C3_SingleResetPerRollover ==
    [][\A r \in Req :
        (Leaves(r, "daily_reset") /\ req'[r].pc = "mark_open"
         /\ req[r].last \in Days) =>
            resetDay # req[r].today]_vars

\* rows for (user, day, address hash, user-agent hash)
EventCount(cl, user_id, day, ip, ua) ==
    Cardinality({i \in DOMAIN cl :
        cl[i] = [user_id |-> user_id, click_date |-> day,
                 ip_hash |-> sha256(ip), ua_hash |-> sha256(ua)]})

\* C4: in a sequence of calls, every call leaves exactly one click row for its
\* (user, day, fingerprint): a recorded call has appended it and added 1 to the
\* aggregate, a call that returns False has found it and changes no click row,
\* no counter and no referral edge.
C4_DuplicateSubmissionIdempotent ==
    [][\A r \in Req :
        /\ (Leaves(r, "rc_insert") /\ ~leaked) =>
              /\ EventCount(clicks', req[r].uid, req[r].click_date,
                            req[r].ip, req[r].ua) = 1
              /\ users'[req[r].uid].clicks = users[req[r].uid].clicks + 1
              /\ req'[r].recorded
        /\ (Leaves(r, "rc_check") /\ req'[r].pc = "respond") =>
              /\ EventCount(clicks', req[r].uid, req[r].check_date,
                            req[r].ip, req[r].ua) = 1
              /\ ~req'[r].recorded
              /\ UNCHANGED <<clicks, users, referrals>>]_vars

\* C5: a hit is recorded exactly when no click row exists for the same user,
\* the day the hit read and the same (address, user-agent) pair.
C5_DedupeOnAddressAndAgent ==
    [][\A r \in Req :
        Leaves(r, "rc_check") =>
            (req'[r].pc = "rc_date"
                <=> ~HasEvent(clicks, req[r].uid, req[r].check_date,
                              req[r].ip, req[r].ua))]_vars

\* C6: an edge is qualified only if its referee has at least the threshold of
\* click rows over all days; a recorded click that leaves an edge's referee
\* with at least the threshold ends with the edge qualified, and the flip of an
\* edge raises the qualified_referrals of its referrer by 1.
C6_QualifiedOnAllTimeCount ==
    /\ [](\A e \in referrals :
            e.qualified => CountClicks(clicks, e.referee) >= REFERRAL_CLICKS_PER_DAY)
    /\ [][\A r \in Req :
            /\ (req[r].pc \in {"rc_row", "rc_count", "rc_qualify"}
                /\ req'[r].pc = "respond"
                /\ CountClicks(clicks, req[r].uid) >= REFERRAL_CLICKS_PER_DAY) =>
                  \A e \in referrals' : e.referee = req[r].uid => e.qualified
            /\ \A e \in referrals :
                  (Leaves(r, "rc_qualify") /\ ~leaked
                   /\ e.referee = req[r].uid /\ ~e.qualified) =>
                      /\ e.referrer \in DOMAIN users
                      /\ users'[e.referrer].qualified_referrals
                            = users[e.referrer].qualified_referrals + 1]_vars

\* C7: with no request in flight, every user's qualified_referrals equals the
\* number of qualified edges that name the user as referrer.
C7_CounterMatchesQualifiedEdges ==
    Quiescent =>
        \A u \in DOMAIN users :
            users[u].qualified_referrals = Cardinality(QualifiedEdges(u))

\* C8: a qualified edge stays qualified in every later state, and no step
\* lowers a user's qualified_referrals.
C8_QualifiedMonotonic ==
    [][/\ \A e \in referrals : e.qualified => e \in referrals'
       /\ \A u \in DOMAIN users :
            /\ u \in DOMAIN users'
            /\ users'[u].qualified_referrals >= users[u].qualified_referrals]_vars

\* after an edge was qualified and its referrer credited: a daily reset, a
\* further click of the referee, a chat start of the referee that has returned
\* and a duplicate click that has returned
C8_Witness ==
    /\ resetDay = today /\ today > 1
    /\ req[1].pc = "done" /\ req[1].kind = "redirect" /\ ~req[1].recorded
    /\ req[1].status \in {302, 500}
    /\ req[2].pc = "done" /\ req[2].kind = "start" /\ req[2].uid = req[1].uid
    /\ \E e \in referrals :
        /\ e.qualified
        /\ e.referee = req[1].uid
        /\ AllTimeEvents(e.referee) > REFERRAL_CLICKS_PER_DAY
        /\ users[e.referee].clicks > 0
        /\ e.referrer \in DOMAIN users
        /\ users[e.referrer].qualified_referrals > 0

\* C9: with no request in flight, every user's clicks aggregate equals the
\* number of the user's click rows inserted since daily_reset last ran.
C9_AggregateMatchesSinceReset ==
    Quiescent => \A u \in DOMAIN users : users[u].clicks = sinceReset[u]

\* clicks before a reset and a click after it
C9_Witness ==
    /\ Quiescent
    /\ resetDay # 0
    /\ \E u \in DOMAIN users :
        /\ users[u].clicks > 0
        /\ CountClicks(clicks, u) > users[u].clicks

\* C10: daily_reset zeroes every user's clicks and changes no other column, no
\* click row, no referral edge and no setting; no step of any operation
\* removes or changes an existing click row.
C10_ResetFrame ==
    [][/\ \A r \in Req :
            (Leaves(r, "daily_reset") /\ ~leaked) =>
                /\ DOMAIN users' = DOMAIN users
                /\ \A u \in DOMAIN users :
                      users'[u] = [users[u] EXCEPT !.clicks = 0]
                /\ UNCHANGED <<clicks, referrals, settings>>
       /\ Len(clicks') >= Len(clicks)
       /\ \A i \in DOMAIN clicks : clicks'[i] = clicks[i]]_vars

\* a reset has just run over click rows, a credited referrer and a stored setting
C10_Witness ==
    \E r \in Req :
        /\ req[r].pc = "mark_open"
        /\ resetDay = req[r].today
        /\ Len(clicks) > 0
        /\ settings # <<>>
        /\ \E u \in DOMAIN users : users[u].qualified_referrals > 0
        /\ \E u \in DOMAIN users : users[u].referred_by = 0

\* C11: check_and_do_daily_reset run alone: with no marker it stores the day it
\* read at entry and zeroes nothing; with the marker equal to that day it changes
\* nothing; with a different marker it zeroes every aggregate and only then
\* rewrites the marker; daily_reset never runs twice for one day.
C11_ResetDecidesOnMarker ==
    [][\A r \in Req :
        /\ (Leaves(r, "cdr_exists") /\ marker = Absent) =>
              req'[r].pc = "mark_open" /\ UNCHANGED users
        /\ (Leaves(r, "cdr_exists") /\ marker # Absent) =>
              req'[r].pc = "cdr_read" /\ UNCHANGED <<users, marker>>
        /\ (Leaves(r, "cdr_read") /\ marker = req[r].today) =>
              req'[r].pc = AfterReset(r) /\ UNCHANGED <<users, marker>>
        /\ (Leaves(r, "cdr_read") /\ marker # req[r].today) =>
              req'[r].pc = "daily_reset" /\ UNCHANGED <<users, marker>>
        /\ Leaves(r, "daily_reset") =>
              /\ \A u \in DOMAIN users' : users'[u].clicks = 0
              /\ marker' = marker /\ marker # req[r].today
              /\ resetDay # req[r].today
              /\ req'[r].pc = "mark_open"
        /\ Leaves(r, "mark_open") => req'[r].pc = "mark_write" /\ UNCHANGED users
        /\ Leaves(r, "mark_write") =>
              marker' = req[r].today /\ UNCHANGED users
        /\ marker' # marker => \E q \in Req : req[q].pc \in {"mark_open", "mark_write"}]_vars

\* a boundary operation has reset the aggregates of a later day and stored it
C11_Witness ==
    /\ req[1].pc = "done" /\ req[1].kind = "boundary" /\ req[1].status = 200
    /\ marker = today /\ resetDay = today /\ today > 1
    /\ \E u \in DOMAIN users : CountClicks(clicks, u) > 0 /\ users[u].clicks = 0

\* C12: every user is the referee of at most one edge; for a user that exists
\* no step creates an edge, changes the referrer of the user's edge or changes
\* the user's referred_by.
C12_OneEdgeFirstWriteWins ==
    /\ [](\A u \in UserIds : Cardinality({e \in referrals : e.referee = u}) <= 1)
    /\ [][\A u \in DOMAIN users :
            /\ u \in DOMAIN users'
            /\ users'[u].referred_by = users[u].referred_by
            /\ {e.referrer : e \in {x \in referrals' : x.referee = u}}
                  = {e.referrer : e \in {x \in referrals : x.referee = u}}]_vars

\* a chat start carrying a referrer has returned for a user that an earlier
\* chat start had created with another referrer: the edge and referred_by are
\* those of the first start
C12_Witness ==
    \E r \in Req :
        /\ req[r].pc = "done" /\ req[r].kind = "start" /\ req[r].ref # 0
        /\ ~req[r].created /\ req[r].err = StartOutcome
        /\ req[r].uid \in DOMAIN users
        /\ users[req[r].uid].referred_by \notin {0, req[r].ref}
        /\ SelectReferral(referrals, req[r].uid) =
              {[referrer |-> users[req[r].uid].referred_by, referee |-> req[r].uid,
                qualified |-> FALSE]}

\* C13: no referral edge has its referrer equal to its referee.
C13_NoSelfReferralEdge ==
    \A e \in referrals : e.referrer # e.referee

\* C14: a redirect request that is answered before the daily reset check is
\* answered with status 400 and changes no stored state.
C14_BadParameterRejected ==
    [][\A r \in Req :
        (req[r].pc = "idle" /\ req'[r].pc = "done") =>
            /\ req'[r].status = 400
            /\ UNCHANGED <<marker, users, referrals, clicks, settings>>]_vars

\* C15: no request ends in an uncaught store conflict.
C15_NoRequestCrashes ==
    \A r \in Req : req[r].err # "IntegrityError"

\* C16: the answer to a valid redirect hit is a 302 to the global link if it is
\* set, else a 302 to the user's paid_link if it is set, else status 500; in
\* each case the click is on record by then: the hit was skipped as a duplicate
\* of a row for the user and the caller's address, or it inserted its row.
C16_ResponsePriority ==
    [][\A r \in Req :
        LET shrinkme == get_setting(settings, "shrinkme")
            paid == users[req[r].uid].paid_link
            counted == \E i \in DOMAIN clicks : clicks[i].user_id = req[r].uid
        IN  /\ (Leaves(r, "rc_check") /\ req'[r].pc = "respond") =>
                  \E i \in DOMAIN clicks :
                      /\ clicks[i].user_id = req[r].uid
                      /\ clicks[i].ip_hash = sha256(req[r].ip)
            /\ (req[r].pc \in {"rc_row", "rc_count", "rc_qualify"}
                /\ req'[r].pc = "respond") => req[r].recorded /\ counted
            /\ Leaves(r, "respond") =>
                  /\ counted
                  /\ IF shrinkme # ""
                     THEN /\ req'[r].pc = "done"
                          /\ req'[r].status = 302 /\ req'[r].location = shrinkme
                     ELSE req'[r].pc = "respond_paid"
            /\ Leaves(r, "respond_paid") =>
                  /\ counted
                  /\ req'[r].pc = "done"
                  /\ paid # "" => req'[r].status = 302 /\ req'[r].location = paid
                  /\ paid = "" => req'[r].status = 500]_vars

\* a recorded hit was sent to the user's own link, no global link being set
C16_Witness ==
    \E r \in Req :
        /\ req[r].pc = "done" /\ req[r].status = 302
        /\ req[r].location = "paidA"
        /\ get_setting(settings, "shrinkme") = ""
        /\ req[r].recorded

\* C17: a redirect hit that creates the user row creates it with clicks 0, no
\* referrer, no edge and qualified_referrals 0, and returns with one click row
\* for the user and a clicks aggregate of 1.
C17_UnknownUserCreatedThenCounted ==
    /\ [][\A r \in Req :
            (Leaves(r, "ensure_insert") /\ req[r].kind = "redirect"
             /\ req[r].uid \notin DOMAIN users) =>
                /\ req[r].uid \in DOMAIN users'
                /\ users'[req[r].uid].clicks = 0
                /\ users'[req[r].uid].referred_by = 0
                /\ users'[req[r].uid].qualified_referrals = 0
                /\ referrals' = referrals
                /\ req'[r].created]_vars
    /\ [](\A r \in Req :
            (req[r].pc = "done" /\ req[r].kind = "redirect" /\ req[r].created) =>
                /\ Cardinality({i \in DOMAIN clicks : clicks[i].user_id = req[r].uid}) = 1
                /\ users[req[r].uid].clicks = 1
                /\ SelectReferral(referrals, req[r].uid) = {})

\* the hit that created user 2 has returned, another user already had a click
C17_Witness ==
    \E r \in Req :
        /\ req[r].pc = "done" /\ req[r].kind = "redirect" /\ req[r].created
        /\ req[r].uid = 2
        /\ users[2].clicks = 1
        /\ Len(clicks) = 2

\* C18: a /setshrinkme from a sender that is not the admin changes no setting;
\* after an admin /setshrinkme with a url the stored global link is that url;
\* every step that changes a setting is an admin /setshrinkme.
C18_SettingsOnlyByAdmin ==
    [][settings' # settings =>
        /\ \A sender \in UserIds \ {ADMIN_IDS}, url \in Urls \cup {""} :
              ~cmd_setshrinkme(sender, url)
        /\ \A url \in Urls :
              cmd_setshrinkme(ADMIN_IDS, url) =>
                  get_setting(settings', "shrinkme") = url
        /\ \E url \in Urls : cmd_setshrinkme(ADMIN_IDS, url)]_vars

\* a hit was answered with the first link and the admin has then stored another
C18_Witness ==
    /\ req[1].pc = "done" /\ req[1].status = 302
    /\ req[1].location = "urlA"
    /\ get_setting(settings, "shrinkme") = "urlB"

\* C19: when a redirect hit has completed, every user's clicks aggregate equals
\* the number of the user's click rows dated with the day in the reset marker.
C19_AggregateMatchesMarkerDay ==
    \A r \in Req :
        (req[r].pc = "done" /\ req[r].kind = "redirect" /\ req[r].err = "") =>
            \A u \in DOMAIN users :
                users[u].clicks =
                    Cardinality({i \in DOMAIN clicks :
                        clicks[i].user_id = u /\ clicks[i].click_date = marker})

\* C20: with every started request completed, each edge whose referee has at
\* least the threshold of click rows is qualified, for every interleaving.
C20_NoQualificationMissed ==
    Quiescent =>
        \A e \in referrals :
            AllTimeEvents(e.referee) >= REFERRAL_CLICKS_PER_DAY => e.qualified

====
